---- MODULE Spec2Model ----
(***************************************************************************)
(* State-machine model of the string interner of src/src/unique_strings.c  *)
(* (uap-c): a growable byte arena (buffer_t), the MurmurHash2 digest, the  *)
(* 32-bucket chained index and the create/add/freeze/destroy lifecycle.    *)
(***************************************************************************)
EXTENDS Integers, Sequences, FiniteSets, TLC

(***************************************************************************)
(* 32-bit unsigned arithmetic.  A uint32_t is the pair <<hi, lo>> of its   *)
(* 16-bit halves, so that every intermediate value stays a small integer.  *)
(***************************************************************************)
W16 == 256 * 256

U32(n) == <<(n \div W16) % W16, n % W16>>

RECURSIVE Pow2(_)
Pow2(n) == IF n = 0 THEN 1 ELSE 2 * Pow2(n - 1)

RECURSIVE XorN(_, _, _)
\* bitwise exclusive or of the low `bits` bits of a and b
XorN(a, b, bits) ==
    IF bits = 0 THEN 0
    ELSE ((a + b) % 2) + 2 * XorN(a \div 2, b \div 2, bits - 1)

\* x ^ y on uint32_t
Xor32(x, y) == <<XorN(x[1], y[1], 16), XorN(x[2], y[2], 16)>>

\* x >> n on uint32_t, 0 < n < 32
Shr32(x, n) ==
    IF n >= 16
    THEN <<0, x[1] \div Pow2(n - 16)>>
    ELSE <<x[1] \div Pow2(n),
           (x[2] \div Pow2(n)) + (x[1] % Pow2(n)) * Pow2(16 - n)>>

\* the 32-bit product of two 16-bit values, as <<hi, lo>>
Mul16(a, b) ==
    LET t1 == a * (b % 256)
        t2 == a * (b \div 256)
        low == t1 + (t2 % 256) * 256
    IN  <<((t2 \div 256) + (low \div W16)) % W16, low % W16>>

\* x * y on uint32_t (wraps modulo 2^32)
Mul32(x, y) ==
    LET p == Mul16(x[2], y[2])
    IN  <<(p[1] + Mul16(x[1], y[2])[2] + Mul16(x[2], y[1])[2]) % W16, p[2]>>

\* x < y on uint32_t
Less32(x, y) == x[1] < y[1] \/ (x[1] = y[1] /\ x[2] < y[2])

(***************************************************************************)
(* Program constants.                                                      *)
(***************************************************************************)
UNIQUE_STRING_BUCKETS == 32
\* 0xf9a025a4
MURMUR_SEED == <<63904, 9636>>
\* 0x5bd1e995
MurmurM == <<23505, 59797>>
MurmurR == 24
\* buffer_alloc grows the arena in multiples of 1 kB
GrowChunk == 1024
NULL == 0

(***************************************************************************)
(* hash_murmur2: a C string is the sequence of its bytes (1..127), without *)
(* the terminator.  `data` is the 1-based position of the next byte.       *)
(***************************************************************************)
\* *(uint32_t* )data on a little-endian machine
LoadWord(str, data) ==
    <<str[data + 3] * 256 + str[data + 2], str[data + 1] * 256 + str[data]>>

\* F(e) with e evaluated once, before F is applied to its value
Eval(e, F(_)) == CHOOSE r \in {F(v) : v \in {e}} : TRUE

\* one pass of the while (len >= 4) body on the word at byte position data
MurmurStep(str, h, data) ==
    Eval(Mul32(LoadWord(str, data), MurmurM), LAMBDA k1 :
    Eval(Xor32(k1, Shr32(k1, MurmurR)), LAMBDA k2 :
    Eval(Mul32(k2, MurmurM), LAMBDA k3 :
         Xor32(Mul32(h, MurmurM), k3))))

RECURSIVE MurmurLoop(_, _, _, _)
\* the while (len >= 4) loop over `count` consecutive words starting at byte
\* position data; the words are folded left to right (the range is split in
\* halves only to keep the evaluation depth logarithmic)
MurmurLoop(str, h, data, count) ==
    IF count = 0 THEN h
    ELSE IF count = 1 THEN MurmurStep(str, h, data)
    ELSE Eval(MurmurLoop(str, h, data, count \div 2), LAMBDA left :
              MurmurLoop(str, left, data + 4 * (count \div 2),
                         count - (count \div 2)))

\* the switch (len) with its fall-through, on the len < 4 bytes left at data
MurmurTail(str, h, data, len) ==
    Eval(IF len = 3 THEN Xor32(h, <<str[data + 2], 0>>) ELSE h, LAMBDA h3 :
    Eval(IF len >= 2 THEN Xor32(h3, <<0, str[data + 1] * 256>>) ELSE h3, LAMBDA h2 :
    Eval(IF len >= 1 THEN Xor32(h2, <<0, str[data]>>) ELSE h2, LAMBDA h1 :
         Mul32(h1, MurmurM))))

hash_murmur2(str, length, seed) ==
    Eval(Xor32(seed, U32(length)), LAMBDA h0 :
    Eval(MurmurLoop(str, h0, 1, length \div 4), LAMBDA h :
    Eval(MurmurTail(str, h, 1 + 4 * (length \div 4), length % 4), LAMBDA hm :
    Eval(Xor32(hm, Shr32(hm, 13)), LAMBDA ha :
    Eval(Mul32(ha, MurmurM), LAMBDA hb :
         Xor32(hb, Shr32(hb, 15)))))))

(***************************************************************************)
(* Inputs.  The strings handed to unique_strings_add, with their real      *)
(* digests: "lbb" and "cemu" collide on all 32 bits (0x25256545); StrM     *)
(* (0x08c0e5c5) and StrL (0x5dc74c05) fall in the same bucket, 5, with a   *)
(* smaller and a larger digest; "" (0xadc9ba28) falls in bucket 8.  StrM   *)
(* and StrL need 1023 and 1024 bytes of arena, so that adding "", StrM and *)
(* StrL grows the arena three times.                                       *)
(***************************************************************************)
Rep(c, n) == [i \in 1..n |-> c]

StrEmpty == <<>>
\* "lbb"
StrA == <<108, 98, 98>>
\* "cemu"
StrB == <<99, 101, 109, 117>>
\* "mmm...mgm", 1022 bytes
StrM == Rep(109, GrowChunk - 4) \o <<103, 109>>
\* "lll...laf", 1023 bytes
StrL == Rep(108, GrowChunk - 3) \o <<97, 102>>

Strings == {StrEmpty, StrA, StrB, StrM, StrL}

\* the interners (struct unique_strings_t objects) of a run, by address
Interners == {1, 2}

\* the number of unique_strings_add calls of a run
MaxAdds == 4
\* the heap holds NumSlots address slots of GrowChunk bytes each
NumSlots == 8

strlen(str) == Len(str)

\* hash_murmur2 of every input, computed once
Digest == [s \in Strings |-> hash_murmur2(s, strlen(s), MURMUR_SEED)]

(***************************************************************************)
(* State.                                                                  *)
(*  us[u]      struct unique_strings_t: buffer {used, capacity, data}, the *)
(*             buckets pointer, and whether the struct is allocated        *)
(*  tables[u]  the calloc'ed array of UNIQUE_STRING_BUCKETS chain heads    *)
(*  nodes      the malloc'ed struct unique_string_node objects, by address *)
(*  mem        the heap blocks holding arena bytes, by base address        *)
(*  issued[u]  the handles unique_strings_add(u, _) returned, in order     *)
(*  moves[u]   how often buffer_alloc's realloc moved u's arena            *)
(*  fault      where, and in which call, the process died on an invalid    *)
(*             access; NoFault until then                                  *)
(*  threads    the threads that call the interner statement by statement:  *)
(*             loc[t] holds the position and the locals of thread t's      *)
(*             call, stale and overlap record what has happened so far     *)
(***************************************************************************)
VARIABLES us, tables, nodes, mem, issued, moves, fault, threads

vars == <<us, tables, nodes, mem, issued, moves, fault, threads>>

Bases == {GrowChunk * (i + 1) : i \in 0..(NumSlots - 1)}
HeapEnd == GrowChunk * (NumSlots + 1)

\* a byte never written (malloc'ed memory is uninitialised)
Uninit == 0 - 1

NoFault == [at |-> "none", us |-> NULL, str |-> <<>>]
NoBlock == [live |-> FALSE, size |-> 0, bytes |-> <<>>]
NoBuffer == [used |-> 0, capacity |-> 0, data |-> NULL]
EmptyTable == [i \in 0..(UNIQUE_STRING_BUCKETS - 1) |-> NULL]

NoHandle == [addr |-> 0, parent |-> NULL]

\* the threads of a run
Threads == {1, 2}

\* a thread outside any call
Idle == [pc |-> "idle", us |-> NULL, str |-> <<>>, found |-> NULL, iter |-> NULL,
         new_node |-> NULL, dst |-> NULL, handle |-> NoHandle, base |-> NULL,
         arg |-> NULL, first |-> FALSE, owned |-> FALSE, result |-> NULL]

Min(a, b) == IF a < b THEN a ELSE b
Max(a, b) == IF a < b THEN b ELSE a

(***************************************************************************)
(* libc heap: malloc/realloc/free of the arena storage.                    *)
(***************************************************************************)
\* the first address behind a block of `size` bytes at base b (a zero-size
\* block still has a unique address)
EndOf(b, size) == b + Max(size, 1)

\* [b, b+size) lies in the heap and meets no live block other than `self`
Fits(m, b, size, self) ==
    /\ EndOf(b, size) <= HeapEnd
    /\ \A o \in Bases \ {self} :
          m[o].live => (EndOf(o, m[o].size) <= b \/ EndOf(b, size) <= o)

\* The addresses a successful realloc(ptr, size) may return: the block grown
\* or shrunk in place, or the lowest free range disjoint from the old block;
\* realloc(ptr, 0) may also free the block and return NULL.
ReallocTargets(m, ptr, size) ==
    LET inplace == IF ptr # NULL /\ Fits(m, ptr, size, ptr) THEN {ptr} ELSE {}
        fresh == {b \in Bases : Fits(m, b, size, NULL)}
        lowest == {b \in fresh : \A o \in fresh : b <= o}
    IN  inplace \cup lowest \cup (IF size = 0 THEN {NULL} ELSE {})

\* the heap after realloc(ptr, size) returned `new`: the old contents are
\* copied up to the smaller of the two sizes, the old block is released
realloc(m, ptr, size, new) ==
    LET old == IF ptr = NULL THEN <<>> ELSE m[ptr].bytes
        kept == SubSeq(old, 1, Min(Len(old), size))
        freed == IF ptr = NULL THEN m ELSE [m EXCEPT ![ptr] = NoBlock]
    IN  IF new = NULL THEN freed
        ELSE [freed EXCEPT ![new] = [live |-> TRUE, size |-> size, bytes |-> kept]]

free(m, ptr) == IF ptr = NULL THEN m ELSE [m EXCEPT ![ptr] = NoBlock]

\* the live block an address points into, NULL when there is none
BlockOf(m, p) ==
    LET bs == {b \in Bases : m[b].live /\ b <= p /\ p < b + m[b].size}
    IN  IF bs = {} THEN NULL ELSE CHOOSE b \in bs : TRUE

\* memcpy(dest, src, n): the heap after writing the bytes src at address dest
\* (dest always lies in a live block in the runs of this model; a write that
\* hits no block leaves the blocks as they are)
memcpy(m, dest, src) ==
    LET b == BlockOf(m, dest)
        off == dest - b
        old == m[b].bytes
        gap == [i \in 1..(off - Len(old)) |-> Uninit]
    IN  IF b = NULL THEN m
        ELSE [m EXCEPT ![b].bytes =
                SubSeq(old, 1, Min(Len(old), off)) \o gap \o src
                    \o SubSeq(old, off + Len(src) + 1, Len(old))]

\* strcmp(p, str) == 0: the bytes at p are those of str and its terminator
StrEq(m, p, str) ==
    LET b == BlockOf(m, p)
        off == p - b
    IN  /\ b # NULL
        /\ off + Len(str) < Len(m[b].bytes)
        /\ SubSeq(m[b].bytes, off + 1, off + Len(str) + 1) = str \o <<0>>

(***************************************************************************)
(* The interner.                                                           *)
(***************************************************************************)
\* x % n on uint32_t, for n dividing 2^16 or not
Mod32(x, n) == ((x[1] % n) * (W16 % n) + x[2]) % n

_string_hash_pair_prepare(str) == [str |-> str, hash |-> Digest[str]]

_get_bucket_index(pair) == Mod32(pair.hash, UNIQUE_STRING_BUCKETS)

\* handle->parent->data + handle->addr, for the buffer `buffer` of the parent
_unique_strings_get(buffer, handle) == buffer.data + handle.addr

unique_strings_get(handle) == us[handle.parent].buffer.data + handle.addr

\* the range check with the end of the used range included
unique_strings_owns_inclusive(u, str) ==
    /\ str >= us[u].buffer.data
    /\ str <= us[u].buffer.data + us[u].buffer.used

unique_strings_owns(u, str) ==
    /\ str >= us[u].buffer.data
    /\ str < us[u].buffer.data + us[u].buffer.used

\* the test with > in place of >=
Grows_strict(buffer, size) == buffer.used + size > buffer.capacity

\* line 45: does the request make buffer_alloc grow the storage
Grows(buffer, size) == buffer.used + size >= buffer.capacity

\* growth by whole chunks of the request only, without the extra chunk
GrownCapacity_floor(buffer, size) ==
    buffer.capacity + GrowChunk * (size \div GrowChunk)

\* line 46: the capacity after growing
GrownCapacity(buffer, size) ==
    buffer.capacity + GrowChunk * ((size \div GrowChunk) + 1)

\* the addresses realloc may return to buffer_alloc(&us[u].buffer, size)
AllocTargets(u, size) ==
    LET buffer == us[u].buffer
    IN  IF Grows(buffer, size)
        THEN ReallocTargets(mem, buffer.data, GrownCapacity(buffer, size)) \ {NULL}
        ELSE {buffer.data}

\* buffer_alloc with malloc in place of realloc: the grown storage starts
\* uninitialised, the old bytes are not carried over
buffer_alloc_malloc(u, size, target) ==
    LET buffer == us[u].buffer
        grow == Grows(buffer, size)
        capacity == IF grow THEN GrownCapacity(buffer, size) ELSE buffer.capacity
    IN  [buffer |-> [used |-> buffer.used + size,
                     capacity |-> capacity,
                     data |-> IF grow THEN target ELSE buffer.data],
         mem |-> IF grow
                 THEN [free(mem, buffer.data) EXCEPT
                          ![target] = [live |-> TRUE, size |-> capacity, bytes |-> <<>>]]
                 ELSE mem,
         ptr |-> [addr |-> buffer.used, parent |-> u],
         moved |-> grow /\ buffer.data # NULL /\ target # buffer.data]

\* buffer_alloc(&us[u].buffer, size) when realloc returns `target`: the new
\* buffer fields, the new heap and the handle returned
buffer_alloc(u, size, target) ==
    LET buffer == us[u].buffer
        grow == Grows(buffer, size)
        capacity == IF grow THEN GrownCapacity(buffer, size) ELSE buffer.capacity
    IN  [buffer |-> [used |-> buffer.used + size,
                     capacity |-> capacity,
                     data |-> IF grow THEN target ELSE buffer.data],
         mem |-> IF grow THEN realloc(mem, buffer.data, capacity, target) ELSE mem,
         ptr |-> [addr |-> buffer.used, parent |-> u],
         moved |-> grow /\ buffer.data # NULL /\ target # buffer.data]

buffer_clear(buffer) == NoBuffer

\* buffer_compact that asks realloc for one byte too few
buffer_compact_short(u, target) ==
    LET buffer == us[u].buffer
    IN  [buffer |-> [used |-> buffer.used, capacity |-> buffer.used, data |-> target],
         mem |-> realloc(mem, buffer.data, Max(buffer.used - 1, 0), target)]

\* buffer_compact that leaves capacity as it was
buffer_compact_keep_capacity(u, target) ==
    LET buffer == us[u].buffer
    IN  [buffer |-> [buffer EXCEPT !.data = target],
         mem |-> realloc(mem, buffer.data, buffer.used, target)]

\* buffer_compact(&us[u].buffer) when realloc returns `target`: the new
\* buffer fields and the new heap
buffer_compact(u, target) ==
    LET buffer == us[u].buffer
    IN  [buffer |-> [used |-> buffer.used, capacity |-> buffer.used, data |-> target],
         mem |-> realloc(mem, buffer.data, buffer.used, target)]

RECURSIVE FindWalk_hash_only(_, _, _)
\* the walk with the strcmp of line 160 left out: a digest match is a hit
FindWalk_hash_only(iter, last, pair) ==
    IF iter = NULL THEN [found |-> FALSE, node |-> last]
    ELSE IF nodes[iter].hash = pair.hash
         THEN [found |-> TRUE, node |-> iter]
    ELSE IF Less32(nodes[iter].hash, pair.hash)
         THEN [found |-> FALSE, node |-> iter]
    ELSE FindWalk_hash_only(nodes[iter].next, iter, pair)

RECURSIVE FindWalk_full_scan(_, _, _)
\* the walk without the break of line 167: it stops at a match or at the end
FindWalk_full_scan(iter, last, pair) ==
    IF iter = NULL THEN [found |-> FALSE, node |-> last]
    ELSE IF /\ nodes[iter].hash = pair.hash
            /\ StrEq(mem, unique_strings_get(nodes[iter].buffer_ptr), pair.str)
         THEN [found |-> TRUE, node |-> iter]
    ELSE FindWalk_full_scan(nodes[iter].next, iter, pair)

RECURSIVE FindWalk(_, _, _)
\* the while (iter) loop of _unique_strings_find_node; `last` is *node
FindWalk(iter, last, pair) ==
    IF iter = NULL THEN [found |-> FALSE, node |-> last]
    ELSE IF /\ nodes[iter].hash = pair.hash
            /\ StrEq(mem, unique_strings_get(nodes[iter].buffer_ptr), pair.str)
         THEN [found |-> TRUE, node |-> iter]
    ELSE IF Less32(nodes[iter].hash, pair.hash)
         THEN [found |-> FALSE, node |-> iter]
    ELSE FindWalk(nodes[iter].next, iter, pair)

_unique_strings_find_node(u, pair) ==
    FindWalk(tables[u].slots[_get_bucket_index(pair)], NULL, pair)

\* unique_string_node_create with memcpy(ptr, pair->str, length): the bytes
\* without the terminator
unique_string_node_create_no_terminator(pair, u, target) ==
    LET node == Len(nodes) + 1
        a == buffer_alloc(u, strlen(pair.str) + 1, target)
        ptr == _unique_strings_get(a.buffer, a.ptr)
    IN  [node |-> node,
         nodes |-> Append(nodes, [next |-> NULL, hash |-> pair.hash,
                                  buffer_ptr |-> a.ptr, frees |-> 0]),
         buffer |-> a.buffer,
         mem |-> memcpy(a.mem, ptr, pair.str),
         moved |-> a.moved]

\* unique_string_node_create when malloc succeeds and realloc returns `target`
unique_string_node_create(pair, u, target) ==
    LET node == Len(nodes) + 1
        a == buffer_alloc(u, strlen(pair.str) + 1, target)
        ptr == _unique_strings_get(a.buffer, a.ptr)
    IN  [node |-> node,
         nodes |-> Append(nodes, [next |-> NULL, hash |-> pair.hash,
                                  buffer_ptr |-> a.ptr, frees |-> 0]),
         buffer |-> a.buffer,
         mem |-> memcpy(a.mem, ptr, pair.str \o <<0>>),
         moved |-> a.moved]

\* linking without line 212: new_node->next stays NULL, so what followed
\* `found` drops out of the chain
LinkNode_drops_rest(ns, tbl, found, new_node, bucket) ==
    IF found # NULL
    THEN [nodes |-> [ns EXCEPT ![found].next = new_node], slots |-> tbl]
    ELSE [nodes |-> ns, slots |-> [tbl EXCEPT ![bucket] = new_node]]

\* linking with new_node->next = found in place of found->next: found and
\* new_node point at each other
LinkNode_cycle(ns, tbl, found, new_node, bucket) ==
    IF found # NULL
    THEN [nodes |-> [ns EXCEPT ![new_node].next = found,
                               ![found].next = new_node],
          slots |-> tbl]
    ELSE [nodes |-> ns, slots |-> [tbl EXCEPT ![bucket] = new_node]]

\* linking that always puts new_node at the head of its bucket
LinkNode_at_head(ns, tbl, found, new_node, bucket) ==
    [nodes |-> [ns EXCEPT ![new_node].next = tbl[bucket]],
     slots |-> [tbl EXCEPT ![bucket] = new_node]]

\* lines 208-217: the chains after linking new_node behind `found`, or as the
\* bucket's head when found is NULL
LinkNode(ns, tbl, found, new_node, bucket) ==
    IF found # NULL
    THEN [nodes |-> [ns EXCEPT ![new_node].next = ns[found].next,
                               ![found].next = new_node],
          slots |-> tbl]
    ELSE [nodes |-> ns, slots |-> [tbl EXCEPT ![bucket] = new_node]]

AddCount == Len(issued[1]) + Len(issued[2])

Callable(u) == fault = NoFault /\ us[u].alive = "live"
Building(u) == Callable(u) /\ us[u].buckets # NULL
Frozen(u) == Callable(u) /\ us[u].buckets = NULL

\* unique_strings_add that allocates the arena copy before it searches: on a
\* match the found handle is returned, and the copy stays behind
AddBuilding_alloc_first(u, str) ==
    /\ UNCHANGED threads
    /\ Callable(u)
    /\ us[u].buckets # NULL
    /\ AddCount < MaxAdds
    /\ LET pair == _string_hash_pair_prepare(str)
           r == _unique_strings_find_node(u, pair)
       IN  \E target \in AllocTargets(u, strlen(str) + 1) :
             LET c == unique_string_node_create(pair, u, target)
                 l == LinkNode(c.nodes, tables[u].slots, r.node, c.node,
                               _get_bucket_index(pair))
             IN  /\ us' = [us EXCEPT ![u].buffer = c.buffer]
                 /\ mem' = c.mem
                 /\ nodes' = IF r.found THEN nodes ELSE l.nodes
                 /\ tables' = IF r.found THEN tables
                              ELSE [tables EXCEPT ![u].slots = l.slots]
                 /\ moves' = [moves EXCEPT ![u] = IF c.moved THEN @ + 1 ELSE @]
                 /\ issued' = [issued EXCEPT ![u] =
                       Append(@, [str |-> str,
                                  handle |-> IF r.found THEN nodes[r.node].buffer_ptr
                                             ELSE c.nodes[c.node].buffer_ptr,
                                  frozen |-> FALSE, hit |-> r.found])]
                 /\ UNCHANGED fault

\* unique_strings_add(us, str) on an interner whose index is present
AddBuilding(u, str) ==
    /\ Callable(u)
    /\ UNCHANGED threads
    /\ us[u].buckets # NULL
    /\ AddCount < MaxAdds
    /\ LET pair == _string_hash_pair_prepare(str)
           r == _unique_strings_find_node(u, pair)
       IN  IF r.found
           THEN /\ issued' = [issued EXCEPT ![u] =
                      Append(@, [str |-> str, handle |-> nodes[r.node].buffer_ptr,
                                 frozen |-> FALSE, hit |-> TRUE])]
                /\ UNCHANGED <<us, tables, nodes, mem, moves, fault>>
           ELSE \E target \in AllocTargets(u, strlen(str) + 1) :
                  LET c == unique_string_node_create(pair, u, target)
                      l == LinkNode(c.nodes, tables[u].slots, r.node, c.node,
                                    _get_bucket_index(pair))
                  IN  /\ us' = [us EXCEPT ![u].buffer = c.buffer]
                      /\ mem' = c.mem
                      /\ nodes' = l.nodes
                      /\ tables' = [tables EXCEPT ![u].slots = l.slots]
                      /\ moves' = [moves EXCEPT ![u] = IF c.moved THEN @ + 1 ELSE @]
                      /\ issued' = [issued EXCEPT ![u] =
                            Append(@, [str |-> str, handle |-> c.nodes[c.node].buffer_ptr,
                                       frozen |-> FALSE, hit |-> FALSE])]
                      /\ UNCHANGED fault

\* unique_strings_add(us, str) after freeze: us->buckets is NULL, and line 153
\* reads us->buckets[bucket_id] through it.  The access is undefined; the
\* process dies at that read, or (where the read yields NULL) after the copy
\* was appended, at the store to us->buckets[...] of line 216.
AddFrozen(u, str) ==
    /\ Callable(u)
    /\ UNCHANGED threads
    /\ us[u].buckets = NULL
    /\ AddCount < MaxAdds
    /\ \/ /\ fault' = [at |-> "line 153: read through NULL us->buckets",
                       us |-> u, str |-> str]
          /\ UNCHANGED <<us, tables, nodes, mem, issued, moves>>
       \/ \E target \in AllocTargets(u, strlen(str) + 1) :
            LET c == unique_string_node_create(_string_hash_pair_prepare(str), u, target)
            IN  /\ us' = [us EXCEPT ![u].buffer = c.buffer]
                /\ mem' = c.mem
                /\ nodes' = c.nodes
                /\ moves' = [moves EXCEPT ![u] = IF c.moved THEN @ + 1 ELSE @]
                /\ fault' = [at |-> "line 216: write through NULL us->buckets",
                             us |-> u, str |-> str]
                /\ UNCHANGED <<tables, issued>>

\* unique_strings_add(us, str) when the malloc of line 184 fails:
\* unique_string_node_create returns NULL, which line 212 writes through
\* (new_node->next) or, the bucket being empty, line 218 reads through
\* (new_node->buffer_ptr) after line 216 stored NULL as the bucket's head.
AddMallocFails(u, str) ==
    /\ Building(u)
    /\ UNCHANGED threads
    /\ AddCount < MaxAdds
    /\ LET pair == _string_hash_pair_prepare(str)
           r == _unique_strings_find_node(u, pair)
       IN  /\ ~r.found
           /\ fault' = [at |-> IF r.node # NULL
                               THEN "line 212: write through NULL new_node"
                               ELSE "line 218: read through NULL new_node",
                        us |-> u, str |-> str]
           /\ tables' = [tables EXCEPT ![u].slots =
                            IF r.node # NULL THEN @
                            ELSE [@ EXCEPT ![_get_bucket_index(pair)] = NULL]]
           /\ UNCHANGED <<us, nodes, mem, issued, moves>>

\* unique_strings_add(us, str) when the realloc of line 47 fails: buffer->data
\* becomes NULL (the old block stays allocated, with no pointer to it left),
\* capacity and used advance, and the memcpy of line 192 writes to NULL + addr.
AddReallocFails(u, str) ==
    /\ Building(u)
    /\ UNCHANGED threads
    /\ AddCount < MaxAdds
    /\ LET pair == _string_hash_pair_prepare(str)
           r == _unique_strings_find_node(u, pair)
           size == strlen(str) + 1
           buffer == us[u].buffer
       IN  /\ ~r.found
           /\ Grows(buffer, size)
           /\ us' = [us EXCEPT ![u].buffer =
                        [used |-> buffer.used + size,
                         capacity |-> GrownCapacity(buffer, size),
                         data |-> NULL]]
           /\ nodes' = Append(nodes, [next |-> NULL, hash |-> pair.hash,
                                      buffer_ptr |-> [addr |-> buffer.used, parent |-> u],
                                      frees |-> 0])
           /\ fault' = [at |-> "line 192: memcpy to NULL + addr", us |-> u, str |-> str]
           /\ UNCHANGED <<tables, mem, issued, moves>>

RECURSIVE _unique_string_free_nodes(_, _)
\* the nodes after free() of every node of the chain starting at `node`
_unique_string_free_nodes(ns, node) ==
    LET rest == IF ns[node].next # NULL
                THEN _unique_string_free_nodes(ns, ns[node].next)
                ELSE ns
    IN  [rest EXCEPT ![node].frees = @ + 1]

RECURSIVE FreeBucketsFrom(_, _, _)
\* the for loop of _unique_string_free_buckets from bucket i on
FreeBucketsFrom(ns, slots, i) ==
    IF i >= UNIQUE_STRING_BUCKETS THEN ns
    ELSE FreeBucketsFrom(IF slots[i] # NULL
                         THEN _unique_string_free_nodes(ns, slots[i])
                         ELSE ns,
                         slots, i + 1)

\* _unique_string_free_buckets without the final us->buckets = NULL: the
\* pointer keeps its value after the table was freed
_unique_string_free_buckets_dangling(u) ==
    IF us[u].buckets # NULL
    THEN [nodes |-> FreeBucketsFrom(nodes, tables[u].slots, 0),
          table |-> [tables[u] EXCEPT !.frees = @ + 1],
          buckets |-> us[u].buckets]
    ELSE [nodes |-> nodes, table |-> tables[u], buckets |-> NULL]

\* _unique_string_free_buckets(us): the nodes, the table and us->buckets
\* afterwards
_unique_string_free_buckets(u) ==
    IF us[u].buckets # NULL
    THEN [nodes |-> FreeBucketsFrom(nodes, tables[u].slots, 0),
          table |-> [tables[u] EXCEPT !.frees = @ + 1],
          buckets |-> NULL]
    ELSE [nodes |-> nodes, table |-> tables[u], buckets |-> NULL]

unique_strings_create(u) ==
    /\ fault = NoFault
    /\ UNCHANGED threads
    /\ us[u].alive = "unborn"
    /\ us' = [us EXCEPT ![u] = [alive |-> "live", buffer |-> NoBuffer, buckets |-> u]]
    /\ tables' = [tables EXCEPT ![u] = [slots |-> EmptyTable, frees |-> 0]]
    /\ UNCHANGED <<nodes, mem, issued, moves, fault>>

unique_strings_freeze(u) ==
    /\ Callable(u)
    /\ UNCHANGED threads
    /\ LET f == _unique_string_free_buckets(u)
           buffer == us[u].buffer
       IN  \E target \in ReallocTargets(mem, buffer.data, buffer.used) :
             /\ us' = [us EXCEPT ![u].buckets = f.buckets,
                                 ![u].buffer = buffer_compact(u, target).buffer]
             /\ mem' = buffer_compact(u, target).mem
             /\ nodes' = f.nodes
             /\ tables' = [tables EXCEPT ![u] = f.table]
             /\ UNCHANGED <<issued, moves, fault>>

unique_strings_destroy(u) ==
    /\ Callable(u)
    /\ UNCHANGED threads
    /\ LET f == _unique_string_free_buckets(u)
       IN  /\ us' = [us EXCEPT ![u] = [alive |-> "freed",
                                       buffer |-> buffer_clear(us[u].buffer),
                                       buckets |-> f.buckets]]
           /\ mem' = free(mem, us[u].buffer.data)
           /\ nodes' = f.nodes
           /\ tables' = [tables EXCEPT ![u] = f.table]
           /\ UNCHANGED <<issued, moves, fault>>

Init ==
    /\ us = [u \in Interners |-> [alive |-> "unborn", buffer |-> NoBuffer, buckets |-> NULL]]
    /\ tables = [u \in Interners |-> [slots |-> EmptyTable, frees |-> 0]]
    /\ nodes = <<>>
    /\ mem = [b \in Bases |-> NoBlock]
    /\ issued = [u \in Interners |-> <<>>]
    /\ moves = [u \in Interners |-> 0]
    /\ fault = NoFault
    /\ threads = [loc |-> [t \in Threads |-> Idle], stale |-> FALSE, overlap |-> FALSE]

\* one interner, every input
Next ==
    \/ unique_strings_create(1)
    \/ \E str \in Strings : AddBuilding(1, str)
    \/ \E str \in Strings : AddFrozen(1, str)
    \/ unique_strings_freeze(1)
    \/ unique_strings_destroy(1)

Spec == Init /\ [][Next]_vars

\* one interner, with allocations that may fail
NextOOM ==
    \/ Next
    \/ \E str \in Strings : AddMallocFails(1, str)
    \/ \E str \in Strings : AddReallocFails(1, str)

SpecOOM == Init /\ [][NextOOM]_vars

\* the strings added in the runs with two interners
TwoStrings == {StrA, StrL}

\* two interners side by side in one heap
NextTwo ==
    \E u \in Interners :
        \/ unique_strings_create(u)
        \/ \E str \in TwoStrings : AddBuilding(u, str)
        \/ \E str \in TwoStrings : AddFrozen(u, str)
        \/ unique_strings_freeze(u)
        \/ unique_strings_destroy(u)

SpecTwo == Init /\ [][NextTwo]_vars

(***************************************************************************)
(* unique_strings_add run by several threads with no lock, one C statement *)
(* of the call per step.  Statements that touch only the thread's locals   *)
(* or a node no other thread can reach yet are taken together with the     *)
(* next statement that reads or writes the interner.                       *)
(***************************************************************************)
\* the strings added in the runs with threads
RaceStrings == {StrA, StrB}

\* the number of unique_strings_add calls of a run with threads
MaxRaceAdds == 3

\* the locals of thread t
L(t) == threads.loc[t]

\* the threads inside a call
InFlight == {t \in Threads : L(t).pc # "idle"}

\* thread t moves on with the locals `new`
Goto(t, new) == threads' = [threads EXCEPT !.loc[t] = new]

\* the bytes [p, p + n) lie in a live block and have all been written
Readable(m, p, n) ==
    LET b == BlockOf(m, p)
        off == p - b
    IN  /\ b # NULL
        /\ off + n <= Len(m[b].bytes)
        /\ \A i \in (off + 1)..(off + n) : m[b].bytes[i] # Uninit

\* what strcmp(p, str) == 0 may yield: the comparison, or anything when it
\* reads bytes that were never written or lie outside every live block
StrcmpOutcomes(m, p, str) ==
    IF Readable(m, p, Len(str) + 1) THEN {StrEq(m, p, str)} ELSE BOOLEAN

\* the return of a handle to the caller of unique_strings_add
Return(t, handle, hit) ==
    issued' = [issued EXCEPT ![L(t).us] =
                 Append(@, [str |-> L(t).str, handle |-> handle,
                            frozen |-> FALSE, hit |-> hit])]

\* lines 200-202 and 151-154: the call, up to iter = us->buckets[bucket_id]
RaceCall(t, u, str) ==
    /\ Building(u)
    /\ L(t).pc = "idle"
    /\ AddCount + Cardinality(InFlight) < MaxRaceAdds
    /\ threads' = [threads EXCEPT
          !.loc[t] = [Idle EXCEPT
                         !.pc = "l156", !.us = u, !.str = str,
                         !.iter = tables[u].slots[
                                     _get_bucket_index(_string_hash_pair_prepare(str))]],
          !.overlap = @ \/ InFlight # {}]
    /\ UNCHANGED <<us, tables, nodes, mem, issued, moves, fault>>

\* lines 156-168: the loop test, *node = iter, the comparison and the break;
\* a match returns found->buffer_ptr (line 221)
RaceWalk(t) ==
    /\ fault = NoFault
    /\ L(t).pc = "l156"
    /\ LET l == L(t)
           pair == _string_hash_pair_prepare(l.str)
           iter == l.iter
       IN  IF iter = NULL
           THEN /\ Goto(t, [l EXCEPT !.pc = "l184"])
                /\ UNCHANGED issued
           ELSE \E eq \in StrcmpOutcomes(mem, unique_strings_get(nodes[iter].buffer_ptr),
                                         l.str) :
                  IF nodes[iter].hash = pair.hash /\ eq
                  THEN /\ Return(t, nodes[iter].buffer_ptr, TRUE)
                       /\ Goto(t, Idle)
                  ELSE /\ Goto(t, [l EXCEPT
                              !.found = iter,
                              !.pc = IF Less32(nodes[iter].hash, pair.hash)
                                     THEN "l184" ELSE "l170"])
                       /\ UNCHANGED issued
    /\ UNCHANGED <<us, tables, nodes, mem, moves, fault>>

\* line 170: iter = iter->next
RaceAdvance(t) ==
    /\ fault = NoFault
    /\ L(t).pc = "l170"
    /\ Goto(t, [L(t) EXCEPT !.iter = nodes[L(t).iter].next, !.pc = "l156"])
    /\ UNCHANGED <<us, tables, nodes, mem, issued, moves, fault>>

\* lines 184-189 and 45: the node is malloc'ed and filled in, buffer_alloc
\* tests whether the request fits
RaceNodeCreate(t) ==
    /\ fault = NoFault
    /\ L(t).pc = "l184"
    /\ LET l == L(t)
       IN  /\ nodes' = Append(nodes, [next |-> NULL,
                                      hash |-> _string_hash_pair_prepare(l.str).hash,
                                      buffer_ptr |-> NoHandle, frees |-> 0])
           /\ Goto(t, [l EXCEPT
                  !.new_node = Len(nodes) + 1,
                  !.pc = IF Grows(us[l.us].buffer, strlen(l.str) + 1)
                         THEN "l46" ELSE "l49"])
    /\ UNCHANGED <<us, tables, mem, issued, moves, fault>>

\* line 46: buffer->capacity += ...
RaceGrowCapacity(t) ==
    /\ fault = NoFault
    /\ L(t).pc = "l46"
    /\ LET l == L(t)
       IN  /\ us' = [us EXCEPT ![l.us].buffer.capacity =
                        GrownCapacity(us[l.us].buffer, strlen(l.str) + 1)]
           /\ Goto(t, [l EXCEPT !.pc = "l47"])
    /\ UNCHANGED <<tables, nodes, mem, issued, moves, fault>>

\* line 47: buffer->data = realloc(buffer->data, buffer->capacity)
RaceRealloc(t) ==
    /\ fault = NoFault
    /\ L(t).pc = "l47"
    /\ LET l == L(t)
           buffer == us[l.us].buffer
       IN  \E target \in ReallocTargets(mem, buffer.data, buffer.capacity) \ {NULL} :
             /\ mem' = realloc(mem, buffer.data, buffer.capacity, target)
             /\ us' = [us EXCEPT ![l.us].buffer.data = target]
             /\ moves' = [moves EXCEPT ![l.us] =
                            IF buffer.data # NULL /\ target # buffer.data
                            THEN @ + 1 ELSE @]
             /\ Goto(t, [l EXCEPT !.pc = "l49"])
    /\ UNCHANGED <<tables, nodes, issued, fault>>

\* lines 49-52: ptr = {.addr = buffer->used, .parent = buffer}, which line 189
\* stores in the node
RaceTakeOffset(t) ==
    /\ fault = NoFault
    /\ L(t).pc = "l49"
    /\ LET l == L(t)
       IN  /\ nodes' = [nodes EXCEPT ![l.new_node].buffer_ptr =
                           [addr |-> us[l.us].buffer.used, parent |-> l.us]]
           /\ Goto(t, [l EXCEPT !.pc = "l54"])
    /\ UNCHANGED <<us, tables, mem, issued, moves, fault>>

\* line 54 without the addition
RaceAdvanceUsed_skipped(t) ==
    /\ fault = NoFault
    /\ L(t).pc = "l54"
    /\ Goto(t, [L(t) EXCEPT !.pc = "l190"])
    /\ UNCHANGED <<us, tables, nodes, mem, issued, moves, fault>>

\* line 54: buffer->used += size
RaceAdvanceUsed(t) ==
    /\ fault = NoFault
    /\ L(t).pc = "l54"
    /\ LET l == L(t)
       IN  /\ us' = [us EXCEPT ![l.us].buffer.used = @ + strlen(l.str) + 1]
           /\ Goto(t, [l EXCEPT !.pc = "l190"])
    /\ UNCHANGED <<tables, nodes, mem, issued, moves, fault>>

\* line 190: char *ptr = _unique_strings_get(&node->buffer_ptr)
RaceGetPtr(t) ==
    /\ fault = NoFault
    /\ L(t).pc = "l190"
    /\ LET l == L(t)
       IN  Goto(t, [l EXCEPT
               !.dst = _unique_strings_get(us[l.us].buffer, nodes[l.new_node].buffer_ptr),
               !.pc = "l192"])
    /\ UNCHANGED <<us, tables, nodes, mem, issued, moves, fault>>

\* line 192: memcpy(ptr, pair->str, length + 1), and the test of line 208.
\* A copy that leaves the storage block, or goes through a pointer computed
\* from a buffer->data that realloc has replaced since, is undefined: the
\* process dies, or the bytes land wherever live storage is and are lost
\* elsewhere.
RaceCopy(t) ==
    /\ fault = NoFault
    /\ L(t).pc = "l192"
    /\ LET l == L(t)
           src == l.str \o <<0>>
           b == BlockOf(mem, l.dst)
           inside == b # NULL /\ l.dst + Len(src) <= b + mem[b].size
           replaced == l.dst - nodes[l.new_node].buffer_ptr.addr # us[l.us].buffer.data
           landed == IF b = NULL THEN mem
                     ELSE memcpy(mem, l.dst,
                                 SubSeq(src, 1, Min(Len(src), b + mem[b].size - l.dst)))
       IN  \/ /\ mem' = landed
              /\ threads' = [threads EXCEPT
                    !.loc[t] = [l EXCEPT !.pc = IF l.found # NULL THEN "l212" ELSE "l216"],
                    !.stale = @ \/ replaced]
              /\ UNCHANGED fault
           \/ /\ replaced \/ ~inside
              /\ fault' = [at |-> "line 192: memcpy outside the arena storage",
                           us |-> l.us, str |-> l.str]
              /\ UNCHANGED <<mem, threads>>
    /\ UNCHANGED <<us, tables, nodes, issued, moves>>

\* line 212: new_node->next = found->next
RaceLinkNext(t) ==
    /\ fault = NoFault
    /\ L(t).pc = "l212"
    /\ nodes' = [nodes EXCEPT ![L(t).new_node].next = nodes[L(t).found].next]
    /\ Goto(t, [L(t) EXCEPT !.pc = "l213"])
    /\ UNCHANGED <<us, tables, mem, issued, moves, fault>>

\* lines 213 and 218: found->next = new_node; return new_node->buffer_ptr
RaceLinkFound(t) ==
    /\ fault = NoFault
    /\ L(t).pc = "l213"
    /\ nodes' = [nodes EXCEPT ![L(t).found].next = L(t).new_node]
    /\ Return(t, nodes[L(t).new_node].buffer_ptr, FALSE)
    /\ Goto(t, Idle)
    /\ UNCHANGED <<us, tables, mem, moves, fault>>

\* lines 216 and 218: us->buckets[...] = new_node; return new_node->buffer_ptr
RaceStoreHead(t) ==
    /\ fault = NoFault
    /\ L(t).pc = "l216"
    /\ tables' = [tables EXCEPT ![L(t).us].slots[
                     _get_bucket_index(_string_hash_pair_prepare(L(t).str))] =
                        L(t).new_node]
    /\ Return(t, nodes[L(t).new_node].buffer_ptr, FALSE)
    /\ Goto(t, Idle)
    /\ UNCHANGED <<us, nodes, mem, moves, fault>>

\* one interner, unique_strings_add called by every thread with no lock
NextRace ==
    \/ unique_strings_create(1)
    \/ \E t \in Threads : \E str \in RaceStrings : RaceCall(t, 1, str)
    \/ \E t \in Threads : RaceWalk(t)
    \/ \E t \in Threads : RaceAdvance(t)
    \/ \E t \in Threads : RaceNodeCreate(t)
    \/ \E t \in Threads : RaceGrowCapacity(t)
    \/ \E t \in Threads : RaceRealloc(t)
    \/ \E t \in Threads : RaceTakeOffset(t)
    \/ \E t \in Threads : RaceAdvanceUsed(t)
    \/ \E t \in Threads : RaceGetPtr(t)
    \/ \E t \in Threads : RaceCopy(t)
    \/ \E t \in Threads : RaceLinkNext(t)
    \/ \E t \in Threads : RaceLinkFound(t)
    \/ \E t \in Threads : RaceStoreHead(t)

SpecRace == Init /\ [][NextRace]_vars

(***************************************************************************)
(* unique_strings_get and unique_strings_owns called by several threads,   *)
(* one memory read of the call per step, on an interner that the owner     *)
(* writes to only while no reader is inside a call.                        *)
(***************************************************************************)
\* the strings added in the runs with readers
ReaderStrings == {StrA, StrB}

\* the handles unique_strings_add(u, _) has returned
HandlesOf(u) == {issued[u][i].handle : i \in DOMAIN issued[u]}

\* the addresses the readers ask unique_strings_owns about: at and next to
\* both ends of the used range
OwnsProbes(u) ==
    {us[u].buffer.data - 1, us[u].buffer.data,
     us[u].buffer.data + us[u].buffer.used - 1,
     us[u].buffer.data + us[u].buffer.used}

\* the owner writes everywhere
Quiescent_ignored == TRUE

\* the owner of the interner calls add, freeze and destroy only while no
\* reader thread is inside a call (main: the strings are added before the
\* threads are created, destroy runs after they are joined)
Quiescent == InFlight = {}

\* unique_strings_get(&handle) is called
ReadGetCall(t, u, handle) ==
    /\ Callable(u)
    /\ L(t).pc = "idle"
    /\ Goto(t, [Idle EXCEPT !.pc = "get_load", !.us = u, !.handle = handle])
    /\ UNCHANGED <<us, tables, nodes, mem, issued, moves, fault>>

\* line 265: the load of handle->parent->data
ReadGetLoad(t) ==
    /\ L(t).pc = "get_load"
    /\ Goto(t, [L(t) EXCEPT !.base = us[L(t).handle.parent].buffer.data,
                            !.pc = "get_ret"])
    /\ UNCHANGED <<us, tables, nodes, mem, issued, moves, fault>>

\* line 265: return ... + handle->addr
ReadGetReturn(t) ==
    /\ L(t).pc = "get_ret"
    /\ Goto(t, [Idle EXCEPT !.result = L(t).base + L(t).handle.addr])
    /\ UNCHANGED <<us, tables, nodes, mem, issued, moves, fault>>

\* unique_strings_owns(us, str) is called
ReadOwnsCall(t, u, str) ==
    /\ Callable(u)
    /\ L(t).pc = "idle"
    /\ Goto(t, [Idle EXCEPT !.pc = "owns_first", !.us = u, !.arg = str])
    /\ UNCHANGED <<us, tables, nodes, mem, issued, moves, fault>>

\* line 270: str >= us->buffer.data; && returns false at once when it fails
ReadOwnsFirst(t) ==
    /\ L(t).pc = "owns_first"
    /\ IF L(t).arg >= us[L(t).us].buffer.data
       THEN Goto(t, [L(t) EXCEPT !.first = TRUE, !.pc = "owns_second"])
       ELSE Goto(t, [Idle EXCEPT !.owned = FALSE])
    /\ UNCHANGED <<us, tables, nodes, mem, issued, moves, fault>>

\* line 270: str < (us->buffer.data + us->buffer.used), and the return
ReadOwnsSecond(t) ==
    /\ L(t).pc = "owns_second"
    /\ Goto(t, [Idle EXCEPT !.owned =
                   L(t).arg < us[L(t).us].buffer.data + us[L(t).us].buffer.used])
    /\ UNCHANGED <<us, tables, nodes, mem, issued, moves, fault>>

\* one interner, its owner, and the reader threads
NextReaders ==
    \/ Quiescent /\ unique_strings_create(1)
    \/ Quiescent /\ \E str \in ReaderStrings : AddBuilding(1, str)
    \/ Quiescent /\ unique_strings_freeze(1)
    \/ Quiescent /\ unique_strings_destroy(1)
    \/ \E t \in Threads : \E handle \in HandlesOf(1) : ReadGetCall(t, 1, handle)
    \/ \E t \in Threads : ReadGetLoad(t)
    \/ \E t \in Threads : ReadGetReturn(t)
    \/ \E t \in Threads : \E str \in OwnsProbes(1) : ReadOwnsCall(t, 1, str)
    \/ \E t \in Threads : ReadOwnsFirst(t)
    \/ \E t \in Threads : ReadOwnsSecond(t)

SpecReaders == Init /\ [][NextReaders]_vars

(***************************************************************************)
(* Properties.                                                             *)
(***************************************************************************)
\* unique_strings_get(handle) points at the bytes of str and a terminator
GetIs(handle, str) == StrEq(mem, unique_strings_get(handle), str)

\* C1: during Building every unique_strings_add(s) returns the handle the
\* first unique_strings_add(s) returned, whatever was added in between and
\* however the digests of the bucket's strings are ordered.
C1_IdempotentDedup ==
    \A u \in Interners : \A i, j \in DOMAIN issued[u] :
        (/\ issued[u][i].str = issued[u][j].str
         /\ ~issued[u][i].frozen
         /\ ~issued[u][j].frozen)
        => issued[u][i].handle = issued[u][j].handle

\* C2: during Building unique_strings_get of every handle an add returned
\* yields the string that was added, the empty string included, however
\* often buffer_alloc has moved the storage since.
C2_RoundTripAcrossGrowth ==
    \A u \in Interners :
        Building(u) =>
            \A i \in DOMAIN issued[u] : GetIs(issued[u][i].handle, issued[u][i].str)

\* the handle of "" has survived two moves of the arena
C2_Witness ==
    /\ Building(1)
    /\ moves[1] >= 2
    /\ Len(issued[1]) >= 3
    /\ issued[1][1].str = StrEmpty
    /\ GetIs(issued[1][1].handle, StrEmpty)

\* C3: during Building two different strings never get the same handle, not
\* even when their digests are equal.
C3_NoFalseDedup ==
    \A u \in Interners : \A i, j \in DOMAIN issued[u] :
        issued[u][i].str # issued[u][j].str
        => issued[u][i].handle # issued[u][j].handle

\* "lbb" and "cemu" (equal digests) were both added
C3_Witness ==
    /\ Digest[StrA] = Digest[StrB]
    /\ \E i, j \in DOMAIN issued[1] :
          /\ issued[1][i].str = StrA
          /\ issued[1][j].str = StrB
          /\ issued[1][i].handle.addr # issued[1][j].handle.addr

\* C4: unique_strings_add on a frozen interner completes normally and returns
\* a handle to a fresh copy: for add(s); freeze(); add(s) the two handles have
\* different offsets and both dereference to s.
C4_AddAfterFreezeAppends ==
    /\ \A u \in Interners : \A i \in DOMAIN issued[u] :
          ~(/\ us[u].buckets = NULL
            /\ fault.at # "none"
            /\ fault.us = u
            /\ fault.str = issued[u][i].str)
    /\ \A u \in Interners : \A i, j \in DOMAIN issued[u] :
          (/\ Frozen(u)
           /\ i < j
           /\ issued[u][i].str = issued[u][j].str
           /\ ~issued[u][i].frozen
           /\ issued[u][j].frozen)
          => /\ issued[u][i].handle.addr # issued[u][j].handle.addr
             /\ GetIs(issued[u][i].handle, issued[u][i].str)
             /\ GetIs(issued[u][j].handle, issued[u][j].str)

\* C5: after unique_strings_freeze, unique_strings_get of every handle issued
\* before the freeze still yields the string that was added.
C5_FreezePreservesContent ==
    \A u \in Interners :
        Frozen(u) =>
            \A i \in DOMAIN issued[u] : GetIs(issued[u][i].handle, issued[u][i].str)

\* a frozen interner with three handles, compacted to used bytes
C5_Witness ==
    /\ Frozen(1)
    /\ Len(issued[1]) >= 3
    /\ us[1].buffer.capacity = us[1].buffer.used
    /\ \A i \in DOMAIN issued[1] : GetIs(issued[1][i].handle, issued[1][i].str)

\* C6: on a fresh interner add(a), add(b), add(a) with a # b returns the same
\* handle for the first and the third call and another one for the second,
\* and the two handles dereference to a and b.
C6_ThreeCalls ==
    \A u \in Interners :
        (/\ Len(issued[u]) >= 3
         /\ issued[u][1].str = issued[u][3].str
         /\ issued[u][1].str # issued[u][2].str)
        => /\ issued[u][3].handle = issued[u][1].handle
           /\ issued[u][2].handle # issued[u][1].handle
           /\ Callable(u) =>
                 /\ GetIs(issued[u][1].handle, issued[u][1].str)
                 /\ GetIs(issued[u][2].handle, issued[u][2].str)

\* add("lbb"), add(StrM), add("lbb"): one bucket, and the second string's
\* digest is the smaller one; the third call was a dedup hit
C6_Witness ==
    /\ Callable(1)
    /\ Len(issued[1]) >= 3
    /\ issued[1][1].str = StrA
    /\ issued[1][2].str = StrM
    /\ issued[1][3].str = StrA
    /\ issued[1][3].hit
    /\ Less32(Digest[StrM], Digest[StrA])
    /\ _get_bucket_index(_string_hash_pair_prepare(StrM))
          = _get_bucket_index(_string_hash_pair_prepare(StrA))

\* C8: in every state the arena has used <= capacity, and the storage block
\* is capacity bytes long and holds every byte written: one growth step of
\* buffer_alloc always makes room for the request.
C8_UsedWithinCapacity ==
    \A u \in Interners :
        LET buffer == us[u].buffer
        IN  /\ buffer.used <= buffer.capacity
            /\ buffer.data # NULL =>
                  /\ mem[buffer.data].live
                  /\ mem[buffer.data].size = buffer.capacity
                  /\ Len(mem[buffer.data].bytes) <= buffer.capacity
                  /\ Len(mem[buffer.data].bytes) = buffer.used

\* the arena has grown beyond one chunk, by a request of exactly 1024 bytes
C8_Witness ==
    /\ Callable(1)
    /\ us[1].buffer.used > GrowChunk
    /\ us[1].buffer.used <= us[1].buffer.capacity
    /\ \E i \in DOMAIN issued[1] :
          /\ issued[1][i].str = StrL
          /\ strlen(StrL) + 1 = GrowChunk

RECURSIVE ChainFrom(_)
\* the nodes of the chain that starts at `node`
ChainFrom(node) ==
    IF node = NULL THEN {} ELSE {node} \cup ChainFrom(nodes[node].next)

\* the index entries of interner u
EntriesOf(u) ==
    UNION {ChainFrom(tables[u].slots[i]) : i \in 0..(UNIQUE_STRING_BUCKETS - 1)}

\* the used bytes of u's arena
ArenaBytes(u) ==
    IF us[u].buffer.data = NULL THEN <<>>
    ELSE SubSeq(mem[us[u].buffer.data].bytes, 1, us[u].buffer.used)

\* C9: unique_strings_freeze frees every index entry and the bucket table,
\* sets buckets to NULL and capacity to used, and leaves used and the stored
\* bytes as they were; on a frozen interner no step sets buckets again, and
\* while it is in use capacity stays equal to used and the bytes stay put.
C9_FreezeIrreversible ==
    [][\A u \in Interners :
          /\ (Building(u) /\ us'[u].alive = "live" /\ us'[u].buckets = NULL)
             => /\ us'[u].buffer.capacity = us[u].buffer.used
                /\ us'[u].buffer.used = us[u].buffer.used
                /\ ArenaBytes(u)' = ArenaBytes(u)
                /\ \A n \in EntriesOf(u) : nodes'[n].frees = 1
                /\ tables'[u].frees = 1
          /\ Frozen(u)
             => /\ us[u].buffer.capacity = us[u].buffer.used
                /\ us'[u].buckets = NULL
                /\ Frozen(u)' =>
                      /\ us'[u].buffer.used = us[u].buffer.used
                      /\ us'[u].buffer.capacity = us'[u].buffer.used
                      /\ ArenaBytes(u)' = ArenaBytes(u)
      ]_vars

\* a frozen interner that held three entries
C9_Witness ==
    /\ Frozen(1)
    /\ Len(nodes) >= 3
    /\ \A n \in DOMAIN nodes : nodes[n].frees = 1
    /\ us[1].buffer.used > 0
    /\ us[1].buffer.capacity = us[1].buffer.used

\* p lies in the used part [data, data + used) of u's storage block
InArena(u, p) ==
    /\ us[u].buffer.data # NULL
    /\ BlockOf(mem, p) = us[u].buffer.data
    /\ p - us[u].buffer.data < us[u].buffer.used

\* the addresses at and next to the ends of every arena, and NULL
Probes ==
    {NULL} \cup UNION {
        {us[v].buffer.data - 1, us[v].buffer.data,
         us[v].buffer.data + us[v].buffer.used - 1,
         us[v].buffer.data + us[v].buffer.used,
         us[v].buffer.data + us[v].buffer.capacity - 1,
         us[v].buffer.data + us[v].buffer.capacity} : v \in Interners}

\* C7: between create and destroy unique_strings_owns(U, p) is true exactly
\* for the addresses p in [data, data + used) of U's arena: true for the
\* address of every handle U issued, false for the address of every handle
\* of another interner.
C7_Owns ==
    \A u \in Interners :
        Callable(u) =>
        /\ \A p \in Probes : unique_strings_owns(u, p) <=> InArena(u, p)
        /\ \A i \in DOMAIN issued[u] :
              unique_strings_owns(u, unique_strings_get(issued[u][i].handle))
        /\ \A v \in Interners \ {u} :
              Callable(v) =>
                 \A j \in DOMAIN issued[v] :
                    ~unique_strings_owns(u, unique_strings_get(issued[v][j].handle))

\* both interners hold strings, and the arena of 2 starts right behind the
\* used bytes of the arena of 1
C7_Witness ==
    /\ Callable(1) /\ Callable(2)
    /\ issued[1] # <<>> /\ issued[2] # <<>>
    /\ us[2].buffer.data = us[1].buffer.data + us[1].buffer.used
    /\ unique_strings_owns(1, unique_strings_get(issued[1][1].handle))
    /\ ~unique_strings_owns(1, unique_strings_get(issued[2][1].handle))

\* where a failed malloc or realloc makes unique_strings_add fault
AllocFaultSites ==
    {"line 212: write through NULL new_node",
     "line 218: read through NULL new_node",
     "line 192: memcpy to NULL + addr"}

\* C10: a failed malloc or realloc inside unique_strings_add does not kill
\* the process; it is reported to the caller, and every handle issued before
\* still dereferences to its string.
C10_AllocFailureReported ==
    \A u \in Interners :
        us[u].alive = "live" =>
            /\ fault.at \notin AllocFaultSites
            /\ \A i \in DOMAIN issued[u] : GetIs(issued[u][i].handle, issued[u][i].str)

\* two handles that allocating adds of u returned share arena bytes
HandlesOverlap(u) ==
    \E i, j \in DOMAIN issued[u] :
        /\ i < j
        /\ ~issued[u][i].hit
        /\ ~issued[u][j].hit
        /\ issued[u][i].handle.addr
              < issued[u][j].handle.addr + strlen(issued[u][j].str) + 1
        /\ issued[u][j].handle.addr
              < issued[u][i].handle.addr + strlen(issued[u][i].str) + 1

\* an entry whose add has returned is in no bucket chain of u
EntryLost(u) ==
    \E n \in DOMAIN nodes :
        /\ nodes[n].buffer_ptr.parent = u
        /\ \A t \in Threads : L(t).new_node # n
        /\ n \notin EntriesOf(u)

\* C11: unique_strings_add run by two threads on one interner with no lock
\* can leave it in a bad state: two handles with overlapping arena ranges, an
\* entry lost from its bucket chain, a copy written through a storage pointer
\* that realloc has replaced (or the process dead on such a copy).  A bad
\* state is reached only by runs in which two calls overlapped in time:
\* calls that run one after the other never produce one.
C11_RaceNeedsOverlap ==
    \A u \in Interners :
        (HandlesOverlap(u) \/ EntryLost(u) \/ threads.stale \/ fault # NoFault)
        => threads.overlap

\* all three kinds of bad state in one run of two overlapping calls
C11_Witness ==
    /\ threads.overlap
    /\ HandlesOverlap(1)
    /\ EntryLost(1)
    /\ threads.stale

\* the positions of a thread inside unique_strings_get or unique_strings_owns
ReaderPcs == {"get_load", "get_ret", "owns_first", "owns_second"}

\* C12: unique_strings_get and unique_strings_owns change nothing of the
\* interner (arena fields, bytes, buckets, entries), and on an interner that
\* nobody writes to while a reader is inside a call, every call returns, in
\* every interleaving with the other threads' reads, what the same call
\* returns when it runs alone on the state it returns in.
C12_ReadersAreSafe ==
    [][\A t \in Threads :
          (threads'.loc[t] # L(t) /\ (L(t).pc \in ReaderPcs
                                      \/ threads'.loc[t].pc \in ReaderPcs))
          => /\ UNCHANGED <<us, tables, nodes, mem, issued>>
             /\ L(t).pc = "get_ret"
                => threads'.loc[t].result = unique_strings_get(L(t).handle)
             /\ (L(t).pc \in {"owns_first", "owns_second"}
                 /\ threads'.loc[t].pc = "idle")
                => threads'.loc[t].owned
                      = unique_strings_owns(L(t).us, L(t).arg)
      ]_vars

\* thread 1 is between the load and the return of unique_strings_get for the
\* second handle while thread 2 is between the two comparisons of
\* unique_strings_owns for the last used byte, on a frozen interner
C12_Witness ==
    /\ Frozen(1)
    /\ Len(issued[1]) >= 2
    /\ L(1).pc = "get_ret"
    /\ L(1).handle = issued[1][2].handle
    /\ L(1).handle.addr > 0
    /\ L(2).pc = "owns_second"
    /\ L(2).arg = us[1].buffer.data + us[1].buffer.used - 1

\* this step is a unique_strings_add(u, _) that allocated a new copy
AllocStep(u) ==
    /\ Len(issued'[u]) = Len(issued[u]) + 1
    /\ ~issued'[u][Len(issued'[u])].hit

\* the size buffer_alloc was asked for in this step's unique_strings_add(u, _)
StepSize(u) == strlen(issued'[u][Len(issued'[u])].str) + 1

\* size / 1024 rounded up
CeilChunks(size) == (size + GrowChunk - 1) \div GrowChunk

\* C13 as stated: buffer_alloc(size) changes capacity only when used + size
\* exceeds capacity, and then by exactly 1024 * ceil(size / 1024), also for
\* sizes that are multiples of 1024 and requests that exactly fill the rest.
C13_GrowthByCeil ==
    [][\A u \in Interners :
          AllocStep(u) =>
             /\ us'[u].buffer.capacity # us[u].buffer.capacity
                => us[u].buffer.used + StepSize(u) > us[u].buffer.capacity
             /\ us'[u].buffer.capacity # us[u].buffer.capacity
                => us'[u].buffer.capacity
                      = us[u].buffer.capacity + GrowChunk * CeilChunks(StepSize(u))
      ]_vars

\* C13, amended: buffer_alloc(size) changes capacity exactly when
\* used + size >= capacity (a request that exactly fills the rest grows the
\* storage too), and then by exactly 1024 * (floor(size / 1024) + 1): that is
\* 1024 * ceil(size / 1024) unless size is a multiple of 1024, where it is
\* one chunk more.
C13_GrowthSizing ==
    [][\A u \in Interners :
          AllocStep(u) =>
             /\ us'[u].buffer.capacity # us[u].buffer.capacity
                <=> us[u].buffer.used + StepSize(u) >= us[u].buffer.capacity
             /\ us'[u].buffer.capacity # us[u].buffer.capacity
                => /\ us'[u].buffer.capacity
                         = us[u].buffer.capacity
                           + GrowChunk * ((StepSize(u) \div GrowChunk) + 1)
                   /\ us'[u].buffer.capacity
                         = us[u].buffer.capacity
                           + GrowChunk * (CeilChunks(StepSize(u))
                                          + IF StepSize(u) % GrowChunk = 0 THEN 1 ELSE 0)
             /\ us'[u].buffer.used = us[u].buffer.used + StepSize(u)
      ]_vars

\* "" and StrM filled the first chunk exactly and the storage grew by one
\* chunk; then StrL, a request of exactly 1024 bytes, grew it by two
C13_Witness ==
    /\ Building(1)
    /\ Len(issued[1]) = 3
    /\ issued[1][1].str = StrEmpty
    /\ issued[1][2].str = StrM
    /\ issued[1][3].str = StrL
    /\ strlen(StrEmpty) + 1 + strlen(StrM) + 1 = GrowChunk
    /\ strlen(StrL) + 1 = GrowChunk
    /\ us[1].buffer.used = 2 * GrowChunk
    /\ us[1].buffer.capacity = 4 * GrowChunk

\* the arena bytes [addr, addr + n] of the handle issued for a string of
\* length n
RangeOf(e) == (e.handle.addr)..(e.handle.addr + strlen(e.str))

\* C14: every allocating unique_strings_add(s) returns a handle whose offset
\* is `used` before the call and advances used by exactly len(s) + 1; so in
\* every state before destroy each issued handle for a string of length n has
\* offset + n + 1 <= used, the byte ranges [offset, offset + n + 1) of
\* distinct handles are pairwise disjoint, and the byte at offset + n is 0.
C14_HandleLayout ==
    [][\A u \in Interners :
          /\ AllocStep(u) =>
                /\ issued'[u][Len(issued'[u])].handle.addr = us[u].buffer.used
                /\ us'[u].buffer.used = us[u].buffer.used + StepSize(u)
          /\ us'[u].alive = "live" =>
                /\ \A i \in DOMAIN issued'[u] :
                      LET e == issued'[u][i]
                          end == e.handle.addr + strlen(e.str) + 1
                          bytes == mem'[us'[u].buffer.data].bytes
                      IN  /\ end <= us'[u].buffer.used
                          /\ end <= Len(bytes)
                          /\ bytes[end] = 0
                /\ \A i, j \in DOMAIN issued'[u] :
                      issued'[u][i].handle # issued'[u][j].handle
                      => RangeOf(issued'[u][i]) \cap RangeOf(issued'[u][j]) = {}
      ]_vars

\* a frozen interner whose storage moved when it grew, with the handles of
\* "", StrM and "lbb" side by side: offsets 0, 1 and 1024
C14_Witness ==
    /\ Frozen(1)
    /\ moves[1] >= 1
    /\ Len(issued[1]) >= 3
    /\ issued[1][1].str = StrEmpty /\ issued[1][1].handle.addr = 0
    /\ issued[1][2].str = StrM /\ issued[1][2].handle.addr = 1
    /\ issued[1][3].str = StrA /\ issued[1][3].handle.addr = GrowChunk
    /\ us[1].buffer.used = GrowChunk + 4
    /\ mem[us[1].buffer.data].bytes[GrowChunk + 4] = 0

\* this step is a unique_strings_add(u, _) that found a matching entry
HitStep(u) ==
    /\ Len(issued'[u]) = Len(issued[u]) + 1
    /\ issued'[u][Len(issued'[u])].hit

\* C15: a unique_strings_add that finds a matching entry leaves used,
\* capacity, the storage pointer, the arena bytes, every bucket head and
\* every entry's next, hash and handle as they were, and returns the handle
\* stored in the found entry, an entry of the string's bucket with the
\* string's digest and content.
C15_HitChangesNothing ==
    [][\A u \in Interners :
          HitStep(u) =>
             LET e == issued'[u][Len(issued'[u])]
                 pair == _string_hash_pair_prepare(e.str)
             IN  /\ UNCHANGED <<us, tables, nodes, mem>>
                 /\ \E n \in ChainFrom(tables[u].slots[_get_bucket_index(pair)]) :
                       /\ nodes[n].hash = pair.hash
                       /\ nodes[n].buffer_ptr = e.handle
                       /\ GetIs(e.handle, e.str)
      ]_vars

\* add(StrL), add("lbb"), add("lbb"): the third call found the entry behind
\* the bucket's head and returned its handle
C15_Witness ==
    /\ Building(1)
    /\ Len(issued[1]) = 3
    /\ issued[1][1].str = StrL
    /\ issued[1][2].str = StrA
    /\ issued[1][3].str = StrA
    /\ issued[1][3].hit
    /\ issued[1][3].handle = issued[1][2].handle
    /\ LET head == tables[1].slots[_get_bucket_index(_string_hash_pair_prepare(StrA))]
       IN  /\ nodes[head].buffer_ptr = issued[1][1].handle
           /\ nodes[nodes[head].next].buffer_ptr = issued[1][3].handle
    /\ us[1].buffer.used = GrowChunk + 4

\* C16: during Building every bucket chain is ordered by digest, non-
\* increasing from head to tail, so that a walk that stops at the first
\* entry with a digest smaller than the target's skips no entry that holds
\* the target's content.
C16_SortedChains ==
    \A u \in Interners :
        Building(u) =>
            /\ \A n \in EntriesOf(u) :
                  nodes[n].next # NULL
                  => ~Less32(nodes[n].hash, nodes[nodes[n].next].hash)
            /\ \A n \in EntriesOf(u) : \A s \in Strings :
                  GetIs(nodes[n].buffer_ptr, s)
                  => LET r == _unique_strings_find_node(u, _string_hash_pair_prepare(s))
                     IN  r.found /\ GetIs(nodes[r.node].buffer_ptr, s)

RECURSIVE ChainSeq(_, _)
\* the chain that starts at `node`, head first, in the nodes ns
ChainSeq(ns, node) ==
    IF node = NULL THEN <<>> ELSE <<node>> \o ChainSeq(ns, ns[node].next)

\* this step is a unique_strings_add(u, _) that returned a handle
AddStep(u) == Len(issued'[u]) = Len(issued[u]) + 1

\* C17: during Building unique_strings_add(s) returns an already issued
\* handle if and only if the chain of bucket digest(s) mod 32 holds an entry
\* with content s that no entry with a digest strictly smaller than
\* digest(s) precedes; otherwise it allocates a new copy and links the new
\* entry right behind the last entry the walk visited (the first entry with
\* a smaller digest, else the tail), or as the head of an empty bucket.
C17_HitCondition ==
    [][\A u \in Interners :
          (Building(u) /\ AddStep(u)) =>
             LET e == issued'[u][Len(issued'[u])]
                 pair == _string_hash_pair_prepare(e.str)
                 bucket == _get_bucket_index(pair)
                 chain == ChainSeq(nodes, tables[u].slots[bucket])
                 smaller == {k \in DOMAIN chain : Less32(nodes[chain[k]].hash, pair.hash)}
                 holds == {k \in DOMAIN chain :
                              /\ GetIs(nodes[chain[k]].buffer_ptr, e.str)
                              /\ \A j \in 1..(k - 1) : j \notin smaller}
                 visited == IF smaller = {} THEN Len(chain)
                            ELSE CHOOSE k \in smaller : \A j \in smaller : k <= j
                 new_node == Len(nodes) + 1
             IN  /\ e.hit <=> holds # {}
                 /\ e.hit =>
                       /\ \E k \in holds : e.handle = nodes[chain[k]].buffer_ptr
                       /\ \E i \in DOMAIN issued[u] : issued[u][i].handle = e.handle
                 /\ ~e.hit =>
                       /\ \A i \in DOMAIN issued[u] : issued[u][i].handle # e.handle
                       /\ Len(nodes') = new_node
                       /\ nodes'[new_node].buffer_ptr = e.handle
                       /\ StrEq(mem', us'[u].buffer.data + e.handle.addr, e.str)
                       /\ ChainSeq(nodes', tables'[u].slots[bucket])
                             = SubSeq(chain, 1, visited) \o <<new_node>>
                                  \o SubSeq(chain, visited + 1, Len(chain))
      ]_vars

\* add(StrM), add("lbb"), add("lbb"): the head's digest is smaller than that
\* of "lbb", so the third call did not reach the entry of the second and
\* linked a new entry between the head and it
C17_Witness ==
    /\ Building(1)
    /\ Len(issued[1]) = 3
    /\ issued[1][1].str = StrM
    /\ issued[1][2].str = StrA
    /\ issued[1][3].str = StrA
    /\ ~issued[1][3].hit
    /\ Len(nodes) = 3
    /\ ChainSeq(nodes, tables[1].slots[_get_bucket_index(_string_hash_pair_prepare(StrA))])
          = <<1, 3, 2>>

\* the handle the search of unique_strings_add(u, s) finds, NoHandle when it
\* finds none
Reachable(u, s) ==
    LET r == _unique_strings_find_node(u, _string_hash_pair_prepare(s))
    IN  IF r.found THEN nodes[r.node].buffer_ptr ELSE NoHandle

\* C18: once a unique_strings_add(s) during Building was a dedup hit
\* returning h, every later unique_strings_add(s) before freeze returns h
\* too, whatever is added in between: an entry the search reaches stays
\* reachable through later insertions, and the head entry of a bucket is
\* never replaced.
C18_HitsAreStable ==
    [][\A u \in Interners :
          (Building(u) /\ Building(u)') =>
             /\ \A s \in Strings :
                   Reachable(u, s) # NoHandle => Reachable(u, s)' = Reachable(u, s)
             /\ \A b \in DOMAIN tables[u].slots :
                   tables[u].slots[b] # NULL
                   => tables'[u].slots[b] = tables[u].slots[b]
             /\ \A i, j \in DOMAIN issued'[u] :
                   (/\ i < j
                    /\ issued'[u][i].hit
                    /\ issued'[u][i].str = issued'[u][j].str)
                   => /\ issued'[u][j].hit
                      /\ issued'[u][j].handle = issued'[u][i].handle
      ]_vars

\* add("lbb"), add("lbb"), add(StrL), add("lbb"): the second call was a hit,
\* StrL went into the same bucket behind the head, the fourth call returned
\* the handle of the second
C18_Witness ==
    /\ Building(1)
    /\ Len(issued[1]) = 4
    /\ issued[1][1].str = StrA
    /\ issued[1][2].str = StrA /\ issued[1][2].hit
    /\ issued[1][3].str = StrL /\ ~issued[1][3].hit
    /\ issued[1][4].str = StrA /\ issued[1][4].hit
    /\ issued[1][4].handle = issued[1][2].handle
    /\ _get_bucket_index(_string_hash_pair_prepare(StrL))
          = _get_bucket_index(_string_hash_pair_prepare(StrA))

\* C19: unique_strings_destroy may be called during Building or after
\* freeze; either way every index entry and the bucket table have then been
\* freed exactly once, the arena storage is freed (it was allocated until
\* then) and used and capacity are 0.  A second unique_strings_freeze frees
\* nothing again and leaves used, capacity and the bytes as they were.
C19_TeardownSafe ==
    [][\A u \in Interners :
          /\ (us[u].alive = "live" /\ us'[u].alive = "freed") =>
                /\ \A n \in DOMAIN nodes :
                      nodes[n].buffer_ptr.parent = u => nodes'[n].frees = 1
                /\ tables'[u].frees = 1
                /\ us[u].buffer.data # NULL
                   => /\ mem[us[u].buffer.data].live
                      /\ ~mem'[us[u].buffer.data].live
                /\ \A b \in Bases :
                      mem'[b].live
                      => \E v \in Interners \ {u} : us'[v].buffer.data = b
                /\ us'[u].buffer = [used |-> 0, capacity |-> 0, data |-> NULL]
                /\ us'[u].buckets = NULL
          /\ (Frozen(u) /\ Frozen(u)') =>
                /\ nodes' = nodes
                /\ tables' = tables
                /\ us'[u].buffer.used = us[u].buffer.used
                /\ us'[u].buffer.capacity = us[u].buffer.capacity
                /\ ArenaBytes(u)' = ArenaBytes(u)
                /\ us'[u].buffer.data # NULL => mem'[us'[u].buffer.data].live
      ]_vars

\* a destroyed interner that held three entries, two of them chained in one
\* bucket: each freed once, the table freed once, no storage left
C19_Witness ==
    /\ us[1].alive = "freed"
    /\ Len(nodes) >= 3
    /\ \E n \in DOMAIN nodes : nodes[n].next # NULL
    /\ \A n \in DOMAIN nodes : nodes[n].frees = 1
    /\ tables[1].frees = 1
    /\ \A b \in Bases : ~mem[b].live
    /\ us[1].buffer = NoBuffer

RECURSIVE BoundedChain(_, _)
\* the chain that starts at `node`, followed for at most `fuel` entries; a
\* final NULL marks a chain that goes on beyond that
BoundedChain(node, fuel) ==
    IF node = NULL THEN <<>>
    ELSE IF fuel = 0 THEN <<NULL>>
    ELSE <<node>> \o BoundedChain(nodes[node].next, fuel - 1)

\* the chain of bucket b of interner u, followed for as many entries as
\* there are nodes
BucketChain(u, b) == BoundedChain(tables[u].slots[b], Len(nodes))

\* C20: after any sequence of adds every bucket chain is finite and acyclic,
\* and every entry is linked exactly once in exactly one chain, that of
\* bucket digest mod 32 of its stored digest; so the walk of
\* _unique_strings_find_node and the teardown of _unique_string_free_nodes
\* end after visiting at most as many entries as the bucket holds.
C20_ChainsAreFinite ==
    \A u \in Interners :
        Building(u) =>
            /\ \A b \in DOMAIN tables[u].slots :
                  LET chain == BucketChain(u, b)
                  IN  /\ \A k \in DOMAIN chain : chain[k] # NULL
                      /\ \A k, j \in DOMAIN chain : k # j => chain[k] # chain[j]
                      /\ \A k \in DOMAIN chain :
                            Mod32(nodes[chain[k]].hash, UNIQUE_STRING_BUCKETS) = b
                      /\ Len(chain)
                            = Cardinality({n \in DOMAIN nodes :
                                 /\ nodes[n].buffer_ptr.parent = u
                                 /\ Mod32(nodes[n].hash, UNIQUE_STRING_BUCKETS) = b})
            /\ \A n \in DOMAIN nodes :
                  nodes[n].buffer_ptr.parent = u
                  => Cardinality({b \in DOMAIN tables[u].slots :
                                     \E k \in DOMAIN BucketChain(u, b) :
                                        BucketChain(u, b)[k] = n}) = 1
            /\ \A s \in Strings :
                  LET pair == _string_hash_pair_prepare(s)
                      r == _unique_strings_find_node(u, pair)
                      chain == BucketChain(u, _get_bucket_index(pair))
                  IN  r.node # NULL => \E k \in DOMAIN chain : chain[k] = r.node

\* four entries: "" alone in bucket 8, "lbb", "cemu" and StrM chained in
\* bucket 5
C20_Witness ==
    /\ Building(1)
    /\ Len(nodes) = 4
    /\ Len(BucketChain(1, _get_bucket_index(_string_hash_pair_prepare(StrEmpty)))) = 1
    /\ Len(BucketChain(1, _get_bucket_index(_string_hash_pair_prepare(StrA)))) = 3
    /\ \E i \in DOMAIN issued[1] : issued[1][i].str = StrB
    /\ \E i \in DOMAIN issued[1] : issued[1][i].str = StrM

====
